---- MODULE Spec2Model ----
(***************************************************************************)
(* Game of Life on a well plate (src/game-of-life.py).                     *)
(*                                                                         *)
(* main() reads the plate, thresholds the reading into a life state,       *)
(* computes the next generation, and update_plate() turns the difference   *)
(* into pipetting commands.  Every hardware command is one step of the     *)
(* model and may raise; an exception that nothing catches leaves main.     *)
(*                                                                         *)
(* Grids are functions row -> column -> value with 0-based indices, as the *)
(* numpy arrays of the source.  OD values are counted in tenths.           *)
(***************************************************************************)
EXTENDS Integers, Sequences, FiniteSets, TLC

(***************************************************************************)
(* Bounds of the model.                                                    *)
(***************************************************************************)
\* shape of the grid the reader returns (8 x 12 on the real plate)
NRows == 2
NCols == 3
\* largest max_cycles main is started with
MaxCycles == 2
\* most wells above the threshold in one reading
MaxAlive == 6
\* most non-zero entries of a diff handed to update_plate on its own
MaxChanged == 3
\* largest shape, and most cells, of the grids compute_next_state is applied to on its own
LifeRows == 4
LifeCols == 4
MaxLifeCells == 12

(***************************************************************************)
(* Program constants.                                                      *)
(***************************************************************************)
\* OD_THRESHOLD = 0.3, in tenths
OD_THRESHOLD == 3
ALIVE_VOLUME == 100
\* need = [0]*8, excess = [0]*8
NumChannels == 8
\* well_ids.append(column * 8 + row)
WellStride == 8
\* rows of the Cos_96_EZWash plate, which plate[well_id] counts column by column
PlateRows == 8
\* Cos_96_EZWash: the plate has 12 columns of 8 wells
PlateCols == 12
\* HTF_L: the high volume tips of the tip rack hold 1065 uL
TipCapacity == 1065

VARIABLES
  pc,             \* position of main / read_plate / update_plate
  max_cycles,     \* argument of main
  cycle,          \* main: cycle
  plate_reading,  \* main: plate_reading
  current_state,  \* main: current_state
  next_state,     \* main: next_state
  diff,           \* main: diff / update_plate: diff
  need,           \* update_plate: need
  excess,         \* update_plate: excess
  column,         \* update_plate: column of the dispense / aspirate loop
  ops,            \* liquid-handling commands update_plate issued in this cycle
  failedStep,     \* the command whose exception left main, or "none"
  lhStops,        \* calls of lh.stop()
  prStops,        \* calls of pr.stop()
  cmdAfterStop,   \* a hardware command was issued after lh.stop() or pr.stop()
  reads,          \* calls of pr.read_absorbance()
  tolCycle,       \* value of cycle when the dispense into the trough raised, or NoCycle
  retCycle,       \* value of cycle when lh.return_tips() was last called, or NoCycle
  readCycle,      \* value of cycle when read_plate was last entered, or NoCycle
  updates,        \* calls of update_plate
  tipVol,         \* volume the commands have left in the tip of each channel
  readerOpen,     \* the plate reader's drawer is open
  platePos,       \* where the plate is: "carrier" or "reader"
  hardware,       \* "real": anything is read, and a dispense that raises has given
                  \* its liquid out or has not; "drained": anything is read, and a
                  \* dispense that raises has given its liquid out; "ideal": exact
                  \* transfers, exact readings
  wells,          \* ideal hardware: the volume in each well of the plate
  fill,           \* ideal hardware: "exact" if every well that held liquid when main
                  \* started held ALIVE_VOLUME, "over" if one held more
  expected        \* ideal hardware: next_state of the cycle before

vars == <<pc, max_cycles, cycle, plate_reading, current_state, next_state, diff,
          need, excess, column, ops, failedStep, lhStops, prStops, cmdAfterStop,
          reads, tolCycle, retCycle, readCycle, updates, tipVol, readerOpen,
          platePos, hardware, wells, fill, expected>>

\* a name that is not bound (yet, or any more)
Unbound == <<>>
NoCycle == -1

(***************************************************************************)
(* Arrays.                                                                 *)
(***************************************************************************)
Shape0(a) == Cardinality(DOMAIN a)
Shape1(a) == Cardinality(DOMAIN a[0])
RowsOf(a) == 0 .. (Shape0(a) - 1)
ColsOf(a) == 0 .. (Shape1(a) - 1)
Max(a, b) == IF a >= b THEN a ELSE b
Min(a, b) == IF a <= b THEN a ELSE b
\* range(n) as the sequence 0, 1, ..., n-1
Range(n) == [i \in 1 .. n |-> i - 1]
\* a boolean used as a number (numpy: True -> 1.0, False -> 0.0)
B2N(b) == IF b THEN 1 ELSE 0

GridsOf(nr, nc, values) == [0 .. (nr - 1) -> [0 .. (nc - 1) -> values]]
CountCells(g, v) == Cardinality({x \in RowsOf(g) \X ColsOf(g) : g[x[1]][x[2]] = v})

(***************************************************************************)
(* read_state                                                              *)
(***************************************************************************)
read_state(reading) ==
  [row \in RowsOf(reading) |-> [col \in ColsOf(reading) |-> reading[row][col] > OD_THRESHOLD]]

(***************************************************************************)
(* compute_next_state                                                      *)
(***************************************************************************)
RECURSIVE SumRow(_, _, _)
\* state[row, c0:c1].sum()
SumRow(cells, c0, c1) ==
  IF c0 >= c1 THEN 0 ELSE B2N(cells[c0]) + SumRow(cells, c0 + 1, c1)

RECURSIVE SumSlice(_, _, _, _, _)
\* state[r0:r1, c0:c1].sum()
SumSlice(state, r0, r1, c0, c1) ==
  IF r0 >= r1 THEN 0 ELSE SumRow(state[r0], c0, c1) + SumSlice(state, r0 + 1, r1, c0, c1)

\* a bug: the cell itself is counted among its neighbours
living_with_self(state, row, col) ==
  SumSlice(state, Max(row - 1, 0), Min(row + 2, Shape0(state)),
                  Max(col - 1, 0), Min(col + 2, Shape1(state)))

living(state, row, col) ==
  SumSlice(state, Max(row - 1, 0), Min(row + 2, Shape0(state)),
                  Max(col - 1, 0), Min(col + 2, Shape1(state)))
    - B2N(state[row][col])

\* the body of the two loops: new_state[row, column]
new_cell(state, row, col) ==
  LET n == living(state, row, col)
  IN  IF n < 2 THEN B2N(FALSE)
      ELSE IF n = 2 THEN B2N(state[row][col])
      ELSE IF n = 3 THEN B2N(TRUE)
      ELSE IF n > 3 THEN B2N(FALSE)
      ELSE 0

compute_next_state(state) ==
  [row \in RowsOf(state) |-> [col \in ColsOf(state) |-> new_cell(state, row, col)]]

(***************************************************************************)
(* main: the terminal test and the diff                                    *)
(***************************************************************************)
\* a bug: stop only when every cell of the next state is dead
is_terminal_all_dead(ns, cs) ==
  \A row \in RowsOf(cs) : \A col \in ColsOf(cs) : ns[row][col] = 0

\* (next_state == current_state).all()
is_terminal(ns, cs) ==
  \A row \in RowsOf(cs) : \A col \in ColsOf(cs) : ns[row][col] = B2N(cs[row][col])

\* a bug: the operands the other way round
subtract_reversed(ns, cs) ==
  [row \in RowsOf(cs) |-> [col \in ColsOf(cs) |-> B2N(cs[row][col]) - ns[row][col]]]
\* next_state - current_state
subtract(ns, cs) ==
  [row \in RowsOf(cs) |-> [col \in ColsOf(cs) |-> ns[row][col] - B2N(cs[row][col])]]

(***************************************************************************)
(* update_plate: the plan and the batches                                  *)
(***************************************************************************)
\* [0]*8
zeros == [channel \in 0 .. (NumChannels - 1) |-> 0]

RECURSIVE plan_rows_assign(_, _, _, _, _)
\* a bug: `=` for `+=`
plan_rows_assign(d, col, row, nd, ex) ==
  IF row >= Shape0(d)
  THEN [need |-> nd, excess |-> ex]
  ELSE IF d[row][col] = 1
       THEN plan_rows_assign(d, col, row + 1, [nd EXCEPT ![row] = ALIVE_VOLUME], ex)
       ELSE IF d[row][col] = -1
       THEN plan_rows_assign(d, col, row + 1, nd, [ex EXCEPT ![row] = ALIVE_VOLUME])
       ELSE plan_rows_assign(d, col, row + 1, nd, ex)

RECURSIVE plan_rows(_, _, _, _, _)
\* the inner loop, `for row in range(diff.shape[0])`, of one column of the plan
plan_rows(d, col, row, nd, ex) ==
  IF row >= Shape0(d)
  THEN [need |-> nd, excess |-> ex]
  ELSE IF d[row][col] = 1
       THEN plan_rows(d, col, row + 1, [nd EXCEPT ![row] = @ + ALIVE_VOLUME], ex)
       ELSE IF d[row][col] = -1
       THEN plan_rows(d, col, row + 1, nd, [ex EXCEPT ![row] = @ + ALIVE_VOLUME])
       ELSE plan_rows(d, col, row + 1, nd, ex)

\* a bug: the trough command moves ALIVE_VOLUME on each channel
trough_batch_unit(v) ==
  LET channels == SelectSeq(Range(Cardinality(DOMAIN v)), LAMBDA channel : v[channel] > 0)
  IN  [use_channels |-> channels,
       well_ids     |-> <<>>,
       vols         |-> [i \in 1 .. Len(channels) |-> ALIVE_VOLUME]]

\* a bug: the volumes of a trough command are the whole list, not those of its channels
trough_batch_all_vols(v) ==
  LET channels == SelectSeq(Range(Cardinality(DOMAIN v)), LAMBDA channel : v[channel] > 0)
  IN  [use_channels |-> channels,
       well_ids     |-> <<>>,
       vols         |-> [i \in 1 .. Cardinality(DOMAIN v) |-> v[i - 1]]]
\* channels and vols of a trough command: the channels with a positive volume
trough_batch(v) ==
  LET channels == SelectSeq(Range(Cardinality(DOMAIN v)), LAMBDA channel : v[channel] > 0)
  IN  [use_channels |-> channels,
       well_ids     |-> <<>>,
       vols         |-> [i \in 1 .. Len(channels) |-> v[channels[i]]]]

\* a bug: wells counted row by row
well_id_row_major(col, row) == row * WellStride + col
well_id(col, row) == col * WellStride + row

\* a bug: every row whose diff is not the opposite of `sign`
column_batch_not_opposite(d, col, sign) ==
  LET channels == SelectSeq(Range(Shape0(d)), LAMBDA row : d[row][col] # -sign)
  IN  [use_channels |-> channels,
       well_ids     |-> [i \in 1 .. Len(channels) |-> well_id(col, channels[i])],
       vols         |-> [i \in 1 .. Len(channels) |-> ALIVE_VOLUME]]

\* channels, well_ids and vols of one column: the rows whose diff is `sign`
column_batch(d, col, sign) ==
  LET channels == SelectSeq(Range(Shape0(d)), LAMBDA row : d[row][col] = sign)
  IN  [use_channels |-> channels,
       well_ids     |-> [i \in 1 .. Len(channels) |-> well_id(col, channels[i])],
       vols         |-> [i \in 1 .. Len(channels) |-> ALIVE_VOLUME]]

\* rows with diff[row, column] == 1
dispense_batch(d, col) == column_batch(d, col, 1)
\* a bug: the aspirate loop without its reversed(): the columns are taken in rising order
aspirate_batch_not_reversed(d, col) == column_batch(d, Shape1(d) - 1 - col, -1)
\* a bug: the aspirate loop takes the rows the dispense loop takes
dispense_batch_again(d, col) == column_batch(d, col, 1)
\* rows with diff[row, column] == -1
aspirate_batch(d, col) == column_batch(d, col, -1)

\* a bug: the command is issued whatever the length of its lists
always_issue(list) == TRUE
\* len(channels) > 0, len(well_ids) > 0
nonempty(list) == Len(list) > 0

\* the well plate[well_id] names: the plate counts its wells column by column
plate_well(id) == [row |-> id % PlateRows, col |-> id \div PlateRows]

Op(name, resource, batch) ==
  [op |-> name, resource |-> resource, use_channels |-> batch.use_channels,
   well_ids |-> batch.well_ids, vols |-> batch.vols]
NoBatch == [use_channels |-> <<>>, well_ids |-> <<>>, vols |-> <<>>]

(***************************************************************************)
(* What the commands do to the liquid                                      *)
(***************************************************************************)
RECURSIVE ChannelVol(_, _, _)
\* the volume a command moves on channel `channel`: its vols at the places of the
\* channel in use_channels, from place i on
ChannelVol(batch, channel, i) ==
  IF i > Len(batch.use_channels) THEN 0
  ELSE (IF batch.use_channels[i] = channel THEN batch.vols[i] ELSE 0)
         + ChannelVol(batch, channel, i + 1)

RECURSIVE WellVol(_, _, _, _)
\* the volume a plate command moves at well (row, col), from place i on
WellVol(batch, row, col, i) ==
  IF i > Len(batch.well_ids) THEN 0
  ELSE (IF plate_well(batch.well_ids[i]) = [row |-> row, col |-> col]
        THEN batch.vols[i] ELSE 0)
         + WellVol(batch, row, col, i + 1)

\* lh.aspirate(..., vols=vols, use_channels=channels): the tips take the volumes up
tips_after_aspirate(tips, batch) ==
  [channel \in DOMAIN tips |-> tips[channel] + ChannelVol(batch, channel, 1)]
\* lh.dispense(..., vols=vols, use_channels=channels): the tips give the volumes out
tips_after_dispense(tips, batch) ==
  [channel \in DOMAIN tips |-> tips[channel] - ChannelVol(batch, channel, 1)]
\* lh.dispense(plate[well_ids], ...) on ideal hardware
wells_after_dispense(w, batch) ==
  [row \in DOMAIN w |-> [col \in DOMAIN w[row] |-> w[row][col] + WellVol(batch, row, col, 1)]]
\* lh.aspirate(plate[well_ids], ...) on ideal hardware
wells_after_aspirate(w, batch) ==
  [row \in DOMAIN w |-> [col \in DOMAIN w[row] |-> w[row][col] - WellVol(batch, row, col, 1)]]

(***************************************************************************)
(* Hardware commands                                                       *)
(***************************************************************************)
\* every liquid-handler or reader command other than the two stop() calls
HwCmd == cmdAfterStop' = (cmdAfterStop \/ lhStops > 0 \/ prStops > 0)
\* a bug: the exception is swallowed and the loop of main goes on
Raise_swallowed(step) == pc' = "while" /\ failedStep' = step
\* the command raises and nothing catches it
Raise(step) == pc' = "raised" /\ failedStep' = step
Goto(label) == pc' = label /\ failedStep' = failedStep

(***************************************************************************)
(* update_plate                                                            *)
(***************************************************************************)
PickUpTips ==
  /\ pc = "pick_up_tips"
  /\ UNCHANGED <<tipVol, readerOpen, platePos, hardware, fill, wells, expected>>
  /\ ops' = Append(ops, Op("pick_up_tips", "tip_rack", NoBatch))
  /\ HwCmd
  /\ tolCycle' = NoCycle
  /\ updates' = updates + 1
  /\ \/ Goto("plan")
     \/ Raise("pick_up_tips")
  /\ UNCHANGED <<max_cycles, cycle, plate_reading, current_state, next_state, diff,
                 need, excess, column, lhStops, prStops, reads, retCycle, readCycle>>

\* need = [0]*8; excess = [0]*8
Plan ==
  /\ pc = "plan"
  /\ UNCHANGED <<tipVol, readerOpen, platePos, hardware, fill, wells, expected, updates>>
  /\ need' = zeros
  /\ excess' = zeros
  /\ column' = 0
  /\ Goto("plan_loop")
  /\ UNCHANGED <<max_cycles, cycle, plate_reading, current_state, next_state, diff,
                 ops, lhStops, prStops, cmdAfterStop, reads, tolCycle,
                 retCycle, readCycle>>

\* one iteration of the planning loop `for column in range(diff.shape[1])`
PlanColumn ==
  /\ pc = "plan_loop"
  /\ UNCHANGED <<tipVol, readerOpen, platePos, hardware, fill, wells, expected, updates>>
  /\ LET after == plan_rows(diff, column, 0, need, excess)
         last  == column + 1 >= Shape1(diff)
     IN  /\ need' = after.need
         /\ excess' = after.excess
         /\ column' = IF last THEN 0 ELSE column + 1
         /\ Goto(IF last THEN "aspirate_trough" ELSE "plan_loop")
  /\ UNCHANGED <<max_cycles, cycle, plate_reading, current_state, next_state, diff,
                 ops, lhStops, prStops, cmdAfterStop, reads, tolCycle,
                 retCycle, readCycle>>

AspirateTrough ==
  /\ pc = "aspirate_trough"
  /\ UNCHANGED <<readerOpen, platePos, hardware, fill, wells, expected, updates>>
  /\ LET batch == trough_batch(need)
     IN  IF nonempty(batch.use_channels)
         THEN /\ ops' = Append(ops, Op("aspirate", "trough", batch))
              /\ HwCmd
              /\ \/ Goto("dispense_loop") /\ tipVol' = tips_after_aspirate(tipVol, batch)
                 \/ Raise("aspirate_trough") /\ tipVol' = tipVol
         ELSE /\ Goto("dispense_loop")
              /\ UNCHANGED <<ops, cmdAfterStop, tipVol>>
  /\ column' = 0
  /\ UNCHANGED <<max_cycles, cycle, plate_reading, current_state, next_state, diff,
                 need, excess, lhStops, prStops, reads, tolCycle, retCycle, readCycle>>

\* one iteration of `for column in range(diff.shape[1])`
DispenseColumn ==
  /\ pc = "dispense_loop"
  /\ UNCHANGED <<readerOpen, platePos, hardware, fill, expected, updates>>
  /\ LET batch == dispense_batch(diff, column)
         last  == column + 1 >= Shape1(diff)
         after == IF last THEN "aspirate_loop" ELSE "dispense_loop"
     IN  /\ IF nonempty(batch.well_ids)
            THEN /\ ops' = Append(ops, Op("dispense", "plate", batch))
                 /\ HwCmd
                 /\ \/ /\ Goto(after)
                       /\ tipVol' = tips_after_dispense(tipVol, batch)
                       /\ wells' = IF hardware = "ideal"
                                   THEN wells_after_dispense(wells, batch) ELSE wells
                    \/ /\ Raise("dispense_plate")
                       /\ UNCHANGED <<tipVol, wells>>
            ELSE /\ Goto(after)
                 /\ UNCHANGED <<ops, cmdAfterStop, tipVol, wells>>
         /\ column' = IF last THEN Shape1(diff) - 1 ELSE column + 1
  /\ UNCHANGED <<max_cycles, cycle, plate_reading, current_state, next_state, diff,
                 need, excess, lhStops, prStops, reads, tolCycle, retCycle, readCycle>>

\* one iteration of `for column in reversed(range(diff.shape[1]))`
AspirateColumn ==
  /\ pc = "aspirate_loop"
  /\ UNCHANGED <<readerOpen, platePos, hardware, fill, expected, updates>>
  /\ LET batch == aspirate_batch(diff, column)
         last  == column <= 0
         after == IF last THEN "dispense_excess" ELSE "aspirate_loop"
     IN  /\ IF nonempty(batch.well_ids)
            THEN /\ ops' = Append(ops, Op("aspirate", "plate", batch))
                 /\ HwCmd
                 /\ \/ /\ Goto(after)
                       /\ tipVol' = tips_after_aspirate(tipVol, batch)
                       /\ wells' = IF hardware = "ideal"
                                   THEN wells_after_aspirate(wells, batch) ELSE wells
                    \/ /\ Raise("aspirate_plate")
                       /\ UNCHANGED <<tipVol, wells>>
            ELSE /\ Goto(after)
                 /\ UNCHANGED <<ops, cmdAfterStop, tipVol, wells>>
         /\ column' = IF last THEN column ELSE column - 1
  /\ UNCHANGED <<max_cycles, cycle, plate_reading, current_state, next_state, diff,
                 need, excess, lhStops, prStops, reads, tolCycle, retCycle, readCycle>>

\* what the tips may hold when the dispense into the trough has raised
tips_after_failure(tips, batch) ==
  IF hardware = "real"
  THEN {tips, tips_after_dispense(tips, batch)}
  ELSE {tips_after_dispense(tips, batch)}

\* a bug: the dispense into the trough is not inside a try
except_clause_missing == Raise("dispense_excess")
\* the except clause around the dispense into the trough: print and go on
except_clause == Goto("return_tips")

DispenseExcess ==
  /\ pc = "dispense_excess"
  /\ UNCHANGED <<readerOpen, platePos, hardware, fill, wells, expected, updates>>
  /\ LET batch == trough_batch(excess)
     IN  IF nonempty(batch.use_channels)
         THEN /\ ops' = Append(ops, Op("dispense", "trough", batch))
              /\ HwCmd
              /\ \/ /\ Goto("return_tips")
                    /\ tolCycle' = tolCycle
                    /\ tipVol' = tips_after_dispense(tipVol, batch)
                 \/ /\ except_clause
                    /\ tolCycle' = cycle
                    /\ tipVol' \in tips_after_failure(tipVol, batch)
         ELSE /\ Goto("return_tips")
              /\ UNCHANGED <<ops, cmdAfterStop, tolCycle, tipVol>>
  /\ UNCHANGED <<max_cycles, cycle, plate_reading, current_state, next_state, diff,
                 need, excess, column, lhStops, prStops, reads, retCycle, readCycle>>

\* lh.return_tips(), then update_plate returns and its locals are gone
ReturnTips ==
  /\ pc = "return_tips"
  /\ UNCHANGED <<tipVol, readerOpen, platePos, hardware, fill, wells, expected, updates>>
  /\ ops' = Append(ops, Op("return_tips", "tip_rack", NoBatch))
  /\ HwCmd
  /\ retCycle' = cycle
  /\ \/ Goto("increment")
     \/ Raise("return_tips")
  /\ need' = Unbound
  /\ excess' = Unbound
  /\ column' = 0
  /\ UNCHANGED <<max_cycles, cycle, plate_reading, current_state, next_state, diff,
                 lhStops, prStops, reads, tolCycle, readCycle>>

(***************************************************************************)
(* read_plate                                                              *)
(***************************************************************************)
\* what read_absorbance may return: a well reads at the threshold or above it
ODLevels == {OD_THRESHOLD, OD_THRESHOLD + 1}
Readings ==
  {g \in GridsOf(NRows, NCols, ODLevels) : CountCells(g, OD_THRESHOLD + 1) <= MaxAlive}

\* ideal hardware: a well reads above OD_THRESHOLD iff it holds liquid
ideal_reading(w) ==
  [row \in DOMAIN w |->
     [col \in DOMAIN w[row] |-> IF w[row][col] > 0 THEN OD_THRESHOLD + 1 ELSE OD_THRESHOLD]]

\* lh.move_plate(plate, pr, ...)
MoveIn ==
  /\ pc = "move_in"
  /\ UNCHANGED <<tipVol, readerOpen, hardware, fill, wells, expected, updates>>
  /\ HwCmd
  /\ readCycle' = cycle
  /\ \/ Goto("pr_close") /\ platePos' = "reader"
     \/ Raise("move_plate") /\ platePos' \in {platePos, "reader"}
  /\ UNCHANGED <<max_cycles, cycle, plate_reading, current_state, next_state, diff,
                 need, excess, column, ops, lhStops, prStops, reads, tolCycle, retCycle>>

\* await pr.close()
PrClose ==
  /\ pc = "pr_close"
  /\ UNCHANGED <<tipVol, platePos, hardware, fill, wells, expected, updates>>
  /\ HwCmd
  /\ \/ Goto("read_absorbance") /\ readerOpen' = FALSE
     \/ Raise("pr_close") /\ readerOpen' \in BOOLEAN
  /\ UNCHANGED <<max_cycles, cycle, plate_reading, current_state, next_state, diff,
                 need, excess, column, ops, lhStops, prStops, reads, tolCycle,
                 retCycle, readCycle>>

\* plate_reading = np.asarray(await pr.read_absorbance(...))
ReadAbsorbance ==
  /\ pc = "read_absorbance"
  /\ UNCHANGED <<tipVol, readerOpen, platePos, hardware, fill, wells, expected, updates>>
  /\ HwCmd
  /\ reads' = reads + 1
  /\ \/ /\ \E reading \in (IF hardware = "ideal" THEN {ideal_reading(wells)} ELSE Readings) :
             plate_reading' = reading
        /\ Goto("pr_open")
     \/ /\ Raise("read_absorbance")
        /\ UNCHANGED plate_reading
  /\ UNCHANGED <<max_cycles, cycle, current_state, next_state, diff, need, excess,
                 column, ops, lhStops, prStops, tolCycle, retCycle, readCycle>>

\* await pr.open()
PrOpen ==
  /\ pc = "pr_open"
  /\ UNCHANGED <<tipVol, platePos, hardware, fill, wells, expected, updates>>
  /\ HwCmd
  /\ \/ Goto("move_out") /\ readerOpen' = TRUE
     \/ Raise("pr_open") /\ readerOpen' \in BOOLEAN
  /\ UNCHANGED <<max_cycles, cycle, plate_reading, current_state, next_state, diff,
                 need, excess, column, ops, lhStops, prStops, reads, tolCycle,
                 retCycle, readCycle>>

\* lh.move_plate(pr.get_plate(), plt_car[1], ...), then read_plate returns
MoveOut ==
  /\ pc = "move_out"
  /\ UNCHANGED <<tipVol, readerOpen, hardware, fill, wells, expected, updates>>
  /\ HwCmd
  /\ \/ Goto("read_state") /\ platePos' = "carrier"
     \/ Raise("move_plate") /\ platePos' \in {platePos, "carrier"}
  /\ UNCHANGED <<max_cycles, cycle, plate_reading, current_state, next_state, diff,
                 need, excess, column, ops, lhStops, prStops, reads, tolCycle,
                 retCycle, readCycle>>

(***************************************************************************)
(* main                                                                    *)
(***************************************************************************)
\* a bug: `<=` for `<`
loop_cond_inclusive(c, m) == c <= m
\* while cycle < max_cycles
loop_cond(c, m) == c < m
\* a bug: main returns where the loop ends
after_loop_return == "returned"
\* where control goes when the loop ends, by its condition or by break
after_loop == "lh_stop"

\* build_deck, lh.setup(), pr.setup(), the resource lookups, cycle = 0
Setup ==
  /\ pc = "setup"
  /\ UNCHANGED <<tipVol, readerOpen, platePos, hardware, fill, wells, expected, updates>>
  /\ cycle' = 0
  /\ \/ Goto("open_reader")
     \/ Raise("setup")
  /\ UNCHANGED <<max_cycles, plate_reading, current_state, next_state, diff, need,
                 excess, column, ops, lhStops, prStops, cmdAfterStop, reads,
                 tolCycle, retCycle, readCycle>>

\* a bug: no pr.open() before the loop
OpenReader_skipped ==
  /\ pc = "open_reader"
  /\ Goto("while")
  /\ UNCHANGED <<max_cycles, cycle, plate_reading, current_state, next_state, diff,
                 need, excess, column, ops, lhStops, prStops, cmdAfterStop, reads,
                 tolCycle, retCycle, readCycle, updates, tipVol, readerOpen, platePos,
                 hardware, fill, wells, expected>>
\* await pr.open() before the loop
OpenReader ==
  /\ pc = "open_reader"
  /\ UNCHANGED <<tipVol, platePos, hardware, fill, wells, expected, updates>>
  /\ HwCmd
  /\ \/ Goto("while") /\ readerOpen' = TRUE
     \/ Raise("pr_open") /\ readerOpen' \in BOOLEAN
  /\ UNCHANGED <<max_cycles, cycle, plate_reading, current_state, next_state, diff,
                 need, excess, column, ops, lhStops, prStops, reads, tolCycle,
                 retCycle, readCycle>>

\* the loop condition; a new iteration has issued no command yet
WhileTest ==
  /\ pc = "while"
  /\ UNCHANGED <<tipVol, readerOpen, platePos, hardware, fill, wells, expected, updates>>
  /\ IF loop_cond(cycle, max_cycles)
     THEN Goto("move_in") /\ ops' = <<>>
     ELSE Goto(after_loop) /\ ops' = ops
  /\ UNCHANGED <<max_cycles, cycle, plate_reading, current_state, next_state, diff,
                 need, excess, column, lhStops, prStops, cmdAfterStop, reads,
                 tolCycle, retCycle, readCycle>>

\* save_figure(plate_reading, cycle); current_state = read_state(plate_reading)
ReadState ==
  /\ pc = "read_state"
  /\ UNCHANGED <<tipVol, readerOpen, platePos, hardware, fill, wells, expected, updates>>
  /\ current_state' = read_state(plate_reading)
  /\ Goto("compute_next_state")
  /\ UNCHANGED <<max_cycles, cycle, plate_reading, next_state, diff, need, excess,
                 column, ops, lhStops, prStops, cmdAfterStop, reads, tolCycle,
                 retCycle, readCycle>>

\* next_state = compute_next_state(current_state)
ComputeNextState ==
  /\ pc = "compute_next_state"
  /\ UNCHANGED <<tipVol, readerOpen, platePos, hardware, fill, wells, expected, updates>>
  /\ next_state' = compute_next_state(current_state)
  /\ Goto("terminal_test")
  /\ UNCHANGED <<max_cycles, cycle, plate_reading, current_state, diff, need, excess,
                 column, ops, lhStops, prStops, cmdAfterStop, reads, tolCycle,
                 retCycle, readCycle>>

\* if (next_state == current_state).all(): break; else diff = ..., update_plate(...)
TerminalTest ==
  /\ pc = "terminal_test"
  /\ UNCHANGED <<tipVol, readerOpen, platePos, hardware, fill, wells, expected, updates>>
  /\ IF is_terminal(next_state, current_state)
     THEN Goto(after_loop) /\ diff' = diff
     ELSE Goto("pick_up_tips") /\ diff' = subtract(next_state, current_state)
  /\ UNCHANGED <<max_cycles, cycle, plate_reading, current_state, next_state, need,
                 excess, column, ops, lhStops, prStops, cmdAfterStop, reads,
                 tolCycle, retCycle, readCycle>>

\* a bug: the counter is advanced by two
next_cycle_by_two(c) == c + 2
\* cycle += 1
next_cycle(c) == c + 1

\* cycle += 1.  The next iteration rebinds plate_reading, current_state, next_state
\* and diff before it reads them, so their old values are dropped here.
Increment ==
  /\ pc = "increment"
  /\ UNCHANGED <<tipVol, readerOpen, platePos, hardware, fill, wells, updates>>
  /\ cycle' = next_cycle(cycle)
  /\ expected' = IF hardware = "ideal" THEN next_state ELSE expected
  /\ Goto("while")
  /\ plate_reading' = Unbound
  /\ current_state' = Unbound
  /\ next_state' = Unbound
  /\ diff' = Unbound
  /\ UNCHANGED <<max_cycles, need, excess, column, ops, lhStops, prStops,
                 cmdAfterStop, reads, tolCycle, retCycle, readCycle>>

\* lh.stop()
LhStop ==
  /\ pc = "lh_stop"
  /\ UNCHANGED <<tipVol, readerOpen, platePos, hardware, fill, wells, expected, updates>>
  /\ lhStops' = lhStops + 1
  /\ \/ Goto("pr_stop")
     \/ Raise("lh_stop")
  /\ UNCHANGED <<max_cycles, cycle, plate_reading, current_state, next_state, diff,
                 need, excess, column, ops, prStops, cmdAfterStop, reads, tolCycle,
                 retCycle, readCycle>>

\* await pr.stop(), then main returns
PrStop ==
  /\ pc = "pr_stop"
  /\ UNCHANGED <<tipVol, readerOpen, platePos, hardware, fill, wells, expected, updates>>
  /\ prStops' = prStops + 1
  /\ \/ Goto("returned")
     \/ Raise("pr_stop")
  /\ UNCHANGED <<max_cycles, cycle, plate_reading, current_state, next_state, diff,
                 need, excess, column, ops, lhStops, cmdAfterStop, reads, tolCycle,
                 retCycle, readCycle>>

(***************************************************************************)
(* Specifications                                                          *)
(***************************************************************************)
\* everything but pc, max_cycles and the value under test, as main starts
Fresh ==
  /\ cycle = 0
  /\ need = Unbound
  /\ excess = Unbound
  /\ column = 0
  /\ ops = <<>>
  /\ failedStep = "none"
  /\ lhStops = 0
  /\ prStops = 0
  /\ cmdAfterStop = FALSE
  /\ reads = 0
  /\ tolCycle = NoCycle
  /\ retCycle = NoCycle
  /\ readCycle = NoCycle
  /\ updates = 0
  /\ tipVol = zeros
  /\ platePos = "carrier"
  /\ expected = Unbound

\* main(max_cycles).  No step of main reads the tips, so its control flow is the
\* same whatever a failed dispense leaves in them; here it leaves them empty, and
\* InitReal below keeps both outcomes.
Init ==
  /\ pc = "setup"
  /\ max_cycles \in 0 .. MaxCycles
  /\ plate_reading = Unbound
  /\ current_state = Unbound
  /\ next_state = Unbound
  /\ diff = Unbound
  /\ readerOpen \in BOOLEAN
  /\ hardware = "drained"
  /\ wells = Unbound
  /\ fill = "exact"
  /\ Fresh

UpdatePlate ==
  \/ PickUpTips
  \/ Plan
  \/ PlanColumn
  \/ AspirateTrough
  \/ DispenseColumn
  \/ AspirateColumn
  \/ DispenseExcess
  \/ ReturnTips

Next ==
  \/ Setup
  \/ OpenReader
  \/ WhileTest
  \/ MoveIn
  \/ PrClose
  \/ ReadAbsorbance
  \/ PrOpen
  \/ MoveOut
  \/ ReadState
  \/ ComputeNextState
  \/ TerminalTest
  \/ PickUpTips
  \/ Plan
  \/ PlanColumn
  \/ AspirateTrough
  \/ DispenseColumn
  \/ AspirateColumn
  \/ DispenseExcess
  \/ ReturnTips
  \/ Increment
  \/ LhStop
  \/ PrStop

Spec == Init /\ [][Next]_vars

\* main(max_cycles) when a dispense that raises may have kept its liquid in the tips
InitReal ==
  /\ pc = "setup"
  /\ max_cycles \in 0 .. MaxCycles
  /\ plate_reading = Unbound
  /\ current_state = Unbound
  /\ next_state = Unbound
  /\ diff = Unbound
  /\ readerOpen \in BOOLEAN
  /\ hardware = "real"
  /\ wells = Unbound
  /\ fill = "exact"
  /\ Fresh

SpecReal == InitReal /\ [][Next]_vars

\* the plates main may start on: each well empty or holding ALIVE_VOLUME
ExactPlates ==
  {w \in GridsOf(NRows, NCols, {0, ALIVE_VOLUME}) : CountCells(w, ALIVE_VOLUME) <= MaxAlive}
\* and the plates whose first well holds twice ALIVE_VOLUME
OverfilledPlates ==
  {[w EXCEPT ![0][0] = 2 * ALIVE_VOLUME] : w \in {x \in ExactPlates : x[0][0] > 0}}

\* main(max_cycles) on ideal hardware
InitIdeal ==
  /\ pc = "setup"
  /\ max_cycles \in 0 .. MaxCycles
  /\ plate_reading = Unbound
  /\ current_state = Unbound
  /\ next_state = Unbound
  /\ diff = Unbound
  /\ readerOpen \in BOOLEAN
  /\ hardware = "ideal"
  /\ \/ fill = "exact" /\ wells \in ExactPlates
     \/ fill = "over" /\ wells \in OverfilledPlates
  /\ Fresh

SpecIdeal == InitIdeal /\ [][Next]_vars

\* update_plate(lh, trough, tip_rack, plate, diff) on its own, for any diff
TransitionGrids ==
  {d \in GridsOf(NRows, NCols, {-1, 0, 1}) :
     CountCells(d, 1) + CountCells(d, -1) <= MaxChanged}

InitUpdatePlate ==
  /\ pc = "pick_up_tips"
  /\ max_cycles = 1
  /\ plate_reading = Unbound
  /\ current_state = Unbound
  /\ next_state = Unbound
  /\ diff \in TransitionGrids
  /\ readerOpen = TRUE
  /\ hardware = "real"
  /\ wells = Unbound
  /\ fill = "exact"
  /\ Fresh

SpecUpdatePlate == InitUpdatePlate /\ [][UpdatePlate]_vars

\* compute_next_state(state) on its own, for any boolean grid
InitLife ==
  /\ pc = "compute_next_state"
  /\ max_cycles = 1
  /\ plate_reading = Unbound
  /\ \E nr \in 1 .. LifeRows : \E nc \in 1 .. LifeCols :
       /\ nr * nc <= MaxLifeCells
       /\ current_state \in GridsOf(nr, nc, BOOLEAN)
  /\ next_state = Unbound
  /\ diff = Unbound
  /\ readerOpen = TRUE
  /\ hardware = "real"
  /\ wells = Unbound
  /\ fill = "exact"
  /\ Fresh

SpecLife == InitLife /\ [][ComputeNextState]_vars

\* one iteration of the loop of main on the 8 x 12 plate of build_deck, from the
\* reading on: the readings in which the wells of a row all read alike
RowUniformReadings ==
  {[row \in 0 .. (PlateRows - 1) |->
      [col \in 0 .. (PlateCols - 1) |->
         IF row \in alive THEN OD_THRESHOLD + 1 ELSE OD_THRESHOLD]] :
     alive \in SUBSET (0 .. (PlateRows - 1))}

InitCapacity ==
  /\ pc = "read_state"
  /\ max_cycles = 1
  /\ plate_reading \in RowUniformReadings
  /\ current_state = Unbound
  /\ next_state = Unbound
  /\ diff = Unbound
  /\ readerOpen = TRUE
  /\ hardware = "real"
  /\ wells = Unbound
  /\ fill = "exact"
  /\ Fresh

NextCapacity ==
  \/ ReadState
  \/ ComputeNextState
  \/ TerminalTest
  \/ UpdatePlate

SpecCapacity == InitCapacity /\ [][NextCapacity]_vars

(***************************************************************************)
(* What update_plate did to a well, read off the commands it issued        *)
(***************************************************************************)
InGrid(w, g) == w.row \in RowsOf(g) /\ w.col \in ColsOf(g)
PlateOps(name) ==
  {i \in 1 .. Len(ops) : ops[i].op = name /\ ops[i].resource = "plate"}
TroughOps(name) ==
  {i \in 1 .. Len(ops) : ops[i].op = name /\ ops[i].resource = "trough"}
\* the entries <<command, position>> of the `name` commands that address well (row, col)
Touches(name, row, col) ==
  {x \in UNION {{<<i, j>> : j \in 1 .. Len(ops[i].well_ids)} : i \in PlateOps(name)} :
     plate_well(ops[x[1]].well_ids[x[2]]) = [row |-> row, col |-> col]}
Transfers == {i \in 1 .. Len(ops) : ops[i].op \in {"aspirate", "dispense"}}

(***************************************************************************)
(* C1  update_plate dispenses only into wells whose diff is +1 and         *)
(* aspirates only from wells whose diff is -1; a well whose diff is 0 is   *)
(* never addressed.                                                        *)
(***************************************************************************)
C1_OnlyChangedWells ==
  \A i \in 1 .. Len(ops) :
    ops[i].resource = "plate" =>
      \A j \in 1 .. Len(ops[i].well_ids) :
        LET w == plate_well(ops[i].well_ids[j])
        IN  /\ InGrid(w, diff)
            /\ ops[i].op = "dispense" => diff[w.row][w.col] = 1
            /\ ops[i].op = "aspirate" => diff[w.row][w.col] = -1

\* update_plate has returned after dispensing and aspirating, and some well was to stay
C1_Witness ==
  /\ pc = "increment"
  /\ PlateOps("dispense") # {}
  /\ PlateOps("aspirate") # {}
  /\ CountCells(diff, 0) > 0

(***************************************************************************)
(* C2  When update_plate returns and no command failed, every well with    *)
(* diff +1 got exactly one dispense of ALIVE_VOLUME and nothing else,      *)
(* every well with diff -1 exactly one aspirate of ALIVE_VOLUME and        *)
(* nothing else, and every well with diff 0 nothing.                       *)
(***************************************************************************)
C2_EachWellOnce ==
  (pc = "increment" /\ failedStep = "none" /\ tolCycle = NoCycle) =>
    /\ \A i \in PlateOps("dispense") \cup PlateOps("aspirate") :
         \A j \in 1 .. Len(ops[i].well_ids) :
           /\ InGrid(plate_well(ops[i].well_ids[j]), diff)
           /\ ops[i].vols[j] = ALIVE_VOLUME
    /\ \A row \in RowsOf(diff) : \A col \in ColsOf(diff) :
         /\ Cardinality(Touches("dispense", row, col)) = (IF diff[row][col] = 1 THEN 1 ELSE 0)
         /\ Cardinality(Touches("aspirate", row, col)) = (IF diff[row][col] = -1 THEN 1 ELSE 0)

\* a finished update_plate with a well of each kind
C2_Witness ==
  /\ pc = "increment"
  /\ failedStep = "none"
  /\ tolCycle = NoCycle
  /\ CountCells(diff, 1) > 0
  /\ CountCells(diff, -1) > 0
  /\ CountCells(diff, 0) > 0

(***************************************************************************)
(* C3  compute_next_state returns a grid of the same shape in which each   *)
(* cell is decided by the number of living cells among its in-bounds       *)
(* neighbours (the cell itself not counted, no wraparound): fewer than 2   *)
(* dead, 2 as it was, 3 alive, more than 3 dead.  A 3 x 3 grid with only   *)
(* the centre alive becomes all dead, and changing another cell that is    *)
(* not a neighbour of a cell never changes that cell's result.             *)
(***************************************************************************)
Neighbour(x, row, col) ==
  /\ x # <<row, col>>
  /\ x[1] - row \in {-1, 0, 1}
  /\ x[2] - col \in {-1, 0, 1}
LivingNeighbours(state, row, col) ==
  Cardinality({x \in RowsOf(state) \X ColsOf(state) :
                 Neighbour(x, row, col) /\ state[x[1]][x[2]]})
Rule(state, row, col) ==
  LET n == LivingNeighbours(state, row, col)
  IN  IF n < 2 THEN FALSE
      ELSE IF n = 2 THEN state[row][col]
      ELSE IF n = 3 THEN TRUE
      ELSE FALSE
Flip(state, x) == [state EXCEPT ![x[1]][x[2]] = ~@]
OnlyCentreAlive(state) ==
  /\ Shape0(state) = 3
  /\ Shape1(state) = 3
  /\ \A x \in RowsOf(state) \X ColsOf(state) : state[x[1]][x[2]] <=> (x = <<1, 1>>)

C3_LifeRule ==
  pc = "terminal_test" =>
    /\ DOMAIN next_state = DOMAIN current_state
    /\ \A row \in RowsOf(current_state) :
         /\ DOMAIN next_state[row] = DOMAIN current_state[row]
         /\ \A col \in ColsOf(current_state) :
              next_state[row][col] = B2N(Rule(current_state, row, col))
    /\ \A x \in RowsOf(current_state) \X ColsOf(current_state) :
         LET changed == compute_next_state(Flip(current_state, x))
         IN  \A row \in RowsOf(current_state) : \A col \in ColsOf(current_state) :
               (x # <<row, col>> /\ ~Neighbour(x, row, col)) =>
                 changed[row][col] = next_state[row][col]
    /\ OnlyCentreAlive(current_state) => CountCells(next_state, 1) = 0

\* a 3 x 3 grid in which one cell dies of crowding, one is born, one stays alive on two
C3_Witness ==
  /\ pc = "terminal_test"
  /\ Shape0(current_state) = 3
  /\ Shape1(current_state) = 3
  /\ \E x, y, z \in RowsOf(current_state) \X ColsOf(current_state) :
       /\ current_state[x[1]][x[2]] /\ LivingNeighbours(current_state, x[1], x[2]) > 3
       /\ next_state[x[1]][x[2]] = 0
       /\ ~current_state[y[1]][y[2]] /\ LivingNeighbours(current_state, y[1], y[2]) = 3
       /\ next_state[y[1]][y[2]] = 1
       /\ current_state[z[1]][z[2]] /\ LivingNeighbours(current_state, z[1], z[2]) = 2
       /\ next_state[z[1]][z[2]] = 1

(***************************************************************************)
(* C4  When the state read in a cycle is a fixed point of                  *)
(* compute_next_state, the loop stops in that cycle: update_plate issues   *)
(* no command for it (no tip pickup, aspirate, dispense or tip return) and *)
(* the cycle counter keeps the value it had when the cycle began.          *)
(***************************************************************************)
\* this iteration has computed a next state, and it equals the state it read
FixedPointRead ==
  /\ pc \notin {"setup", "open_reader", "while", "move_in", "pr_close", "read_absorbance",
                "pr_open", "move_out", "read_state", "compute_next_state"}
  /\ next_state # Unbound
  /\ \A row \in RowsOf(current_state) : \A col \in ColsOf(current_state) :
       (next_state[row][col] = 1) <=> current_state[row][col]

C4_FixedPointStops ==
  FixedPointRead =>
    /\ pc \in {"terminal_test", "lh_stop", "pr_stop", "returned", "raised"}
    /\ pc = "raised" => failedStep \in {"lh_stop", "pr_stop"}
    /\ ops = <<>>
    /\ cycle = readCycle
    /\ retCycle # cycle

\* main has returned after reading a fixed point in its second cycle
C4_Witness ==
  /\ FixedPointRead
  /\ pc = "returned"
  /\ cycle = 1
  /\ max_cycles = 2
  /\ CountCells(current_state, TRUE) > 0

(***************************************************************************)
(* C5  As claimed: with max_cycles = 0 main performs no transfer and ends  *)
(* right after its first read, so exactly one plate read has been made     *)
(* when the loop has stopped.                                              *)
(***************************************************************************)
C5_OneReadThenExhausted ==
  (max_cycles = 0 /\ pc \in {"lh_stop", "pr_stop", "returned"}) =>
    /\ reads = 1
    /\ ops = <<>>

(***************************************************************************)
(* C5, amended: with max_cycles = 0 the loop body is never entered: main   *)
(* performs no plate read, no plate move and no transfer, and goes from    *)
(* opening the reader straight to the teardown.                            *)
(***************************************************************************)
C5_NoCycleAtAll ==
  max_cycles = 0 =>
    /\ pc \in {"setup", "open_reader", "while", "lh_stop", "pr_stop", "returned", "raised"}
    /\ reads = 0
    /\ readCycle = NoCycle
    /\ retCycle = NoCycle
    /\ ops = <<>>
    /\ cycle = 0

\* main(0) has returned
C5_Witness ==
  /\ max_cycles = 0
  /\ pc = "returned"
  /\ lhStops = 1
  /\ prStops = 1

(***************************************************************************)
(* C6  When the dispense of the excess into the trough fails, the failure  *)
(* is absorbed: return_tips is still called in that cycle, and unless      *)
(* another command fails the cycle counter is incremented and, if it is    *)
(* then below max_cycles, the next cycle's read_plate is entered.          *)
(***************************************************************************)
C6_ExcessFailureAbsorbed ==
  tolCycle # NoCycle =>
    /\ pc = "return_tips" \/ retCycle = tolCycle
    /\ failedStep # "dispense_excess"
    /\ (failedStep = "none" /\ pc \notin {"return_tips", "increment"}) =>
         cycle = tolCycle + 1
    /\ (failedStep = "none" /\ pc \notin {"return_tips", "increment", "while", "move_in"}
          /\ tolCycle + 1 < max_cycles) =>
         readCycle = tolCycle + 1

\* the cycle after a failed excess dispense is reading the plate
C6_Witness ==
  /\ tolCycle = 0
  /\ cycle = 1
  /\ pc = "pr_open"
  /\ reads = 2
  /\ failedStep = "none"

(***************************************************************************)
(* C7  When main returns, after a fixed point or after max_cycles cycles,  *)
(* lh.stop() and pr.stop() have each been called exactly once, and no      *)
(* hardware command is ever issued after either of them.                   *)
(***************************************************************************)
C7_TeardownOnce ==
  /\ ~cmdAfterStop
  /\ lhStops <= 1
  /\ prStops <= lhStops
  /\ pc = "returned" => (lhStops = 1 /\ prStops = 1)
  /\ pc \in {"pr_stop", "returned"} => lhStops = 1

\* main returns because the counter reached max_cycles, after real cycles
C7_Witness ==
  /\ pc = "returned"
  /\ max_cycles > 0
  /\ cycle = max_cycles
  /\ retCycle = max_cycles - 1

(***************************************************************************)
(* C8  As claimed: when a command other than the excess dispense raises,   *)
(* the teardown (lh.stop() and pr.stop()) is attempted before the process  *)
(* ends.                                                                   *)
(***************************************************************************)
FatalSteps ==
  {"move_plate", "pr_open", "pr_close", "read_absorbance", "pick_up_tips",
   "aspirate_trough", "dispense_plate", "aspirate_plate", "return_tips"}

C8_TeardownAfterFatalError ==
  (pc = "raised" /\ failedStep \in FatalSteps) => (lhStops >= 1 /\ prStops >= 1)

(***************************************************************************)
(* C9  While update_plate executes its commands, need[r] is ALIVE_VOLUME   *)
(* times the number of +1 entries of row r of diff and excess[r] is        *)
(* ALIVE_VOLUME times the number of -1 entries, for every r in 0..7; both  *)
(* are computed before the first aspirate or dispense and keep their value *)
(* to the end of the cycle.                                                *)
(***************************************************************************)
CountInRow(d, row, v) ==
  IF row \in RowsOf(d) THEN Cardinality({col \in ColsOf(d) : d[row][col] = v}) ELSE 0

C9_PlanMatchesDiff ==
  /\ pc \in {"aspirate_trough", "dispense_loop", "aspirate_loop", "dispense_excess",
             "return_tips"} =>
       /\ DOMAIN need = 0 .. 7
       /\ DOMAIN excess = 0 .. 7
       /\ \A row \in 0 .. 7 :
            /\ need[row] = ALIVE_VOLUME * CountInRow(diff, row, 1)
            /\ excess[row] = ALIVE_VOLUME * CountInRow(diff, row, -1)
  /\ pc \in {"pick_up_tips", "plan", "plan_loop"} => Transfers = {}
  /\ \A i \in TroughOps("aspirate") : \A j \in 1 .. Len(ops[i].vols) :
       ops[i].vols[j] = ALIVE_VOLUME * CountInRow(diff, ops[i].use_channels[j], 1)
  /\ \A i \in TroughOps("dispense") : \A j \in 1 .. Len(ops[i].vols) :
       ops[i].vols[j] = ALIVE_VOLUME * CountInRow(diff, ops[i].use_channels[j], -1)

\* the last step of a cycle in which one row gets two wells filled and one a well emptied
C9_Witness ==
  /\ pc = "return_tips"
  /\ \E row \in 0 .. 7 : need[row] = 2 * ALIVE_VOLUME
  /\ \E row \in 0 .. 7 : excess[row] = ALIVE_VOLUME
  /\ Transfers # {}

(***************************************************************************)
(* C10  update_plate never issues an empty batch: every aspirate and       *)
(* dispense addresses at least one channel; a column without +1 gets no    *)
(* dispense and a column without -1 no aspirate; the trough aspirate is    *)
(* issued only if some row has a +1 and the trough dispense only if some   *)
(* row has a -1.  An all-zero diff produces no aspirate and no dispense.   *)
(***************************************************************************)
ColumnsOf(name) ==
  {plate_well(ops[x[1]].well_ids[x[2]]).col :
     x \in UNION {{<<i, j>> : j \in 1 .. Len(ops[i].well_ids)} : i \in PlateOps(name)}}

C10_NoEmptyBatch ==
  /\ \A i \in Transfers :
       /\ Len(ops[i].use_channels) > 0
       /\ Len(ops[i].vols) = Len(ops[i].use_channels)
       /\ ops[i].resource = "plate" => Len(ops[i].well_ids) > 0
  /\ Cardinality(PlateOps("dispense")) = Cardinality(ColumnsOf("dispense"))
  /\ Cardinality(PlateOps("aspirate")) = Cardinality(ColumnsOf("aspirate"))
  /\ \A col \in ColumnsOf("dispense") : \E row \in RowsOf(diff) : diff[row][col] = 1
  /\ \A col \in ColumnsOf("aspirate") : \E row \in RowsOf(diff) : diff[row][col] = -1
  /\ TroughOps("aspirate") # {} => CountCells(diff, 1) > 0
  /\ TroughOps("dispense") # {} => CountCells(diff, -1) > 0
  /\ (CountCells(diff, 1) = 0 /\ CountCells(diff, -1) = 0) => Transfers = {}

\* update_plate has run to its end on an all-zero diff
C10_Witness ==
  /\ pc = "increment"
  /\ CountCells(diff, 1) = 0
  /\ CountCells(diff, -1) = 0
  /\ Len(ops) = 2

(***************************************************************************)
(* C11  Within one execution of update_plate the commands follow a strict  *)
(* phase order: pick_up_tips first; then at most one aspirate from the     *)
(* trough; then the plate dispenses, columns strictly rising; then the     *)
(* plate aspirates, columns strictly falling; then at most one dispense    *)
(* into the trough; return_tips last.                                      *)
(***************************************************************************)
Phase(o) ==
  CASE o.op = "pick_up_tips" -> 0
    [] o.op = "aspirate" /\ o.resource = "trough" -> 1
    [] o.op = "dispense" /\ o.resource = "plate" -> 2
    [] o.op = "aspirate" /\ o.resource = "plate" -> 3
    [] o.op = "dispense" /\ o.resource = "trough" -> 4
    [] o.op = "return_tips" -> 5
\* the column a plate command works in
ColumnOfOp(o) == plate_well(o.well_ids[1]).col

C11_PhaseOrder ==
  /\ Len(ops) > 0 => ops[1].op = "pick_up_tips"
  /\ \A i \in 1 .. Len(ops) : \A j \in 1 .. Len(ops) :
       i < j =>
         /\ Phase(ops[i]) <= Phase(ops[j])
         /\ Phase(ops[i]) = Phase(ops[j]) => Phase(ops[i]) \in {2, 3}
         /\ (Phase(ops[i]) = 2 /\ Phase(ops[j]) = 2) => ColumnOfOp(ops[i]) < ColumnOfOp(ops[j])
         /\ (Phase(ops[i]) = 3 /\ Phase(ops[j]) = 3) => ColumnOfOp(ops[i]) > ColumnOfOp(ops[j])
  /\ pc = "increment" => ops[Len(ops)].op = "return_tips"
  /\ pc \in {"plan", "plan_loop", "aspirate_trough", "dispense_loop", "aspirate_loop",
             "dispense_excess",
             "return_tips"} => (Len(ops) > 0 /\ ops[Len(ops)].op # "return_tips")

\* update_plate has returned after commands of all six phases, with two plate
\* aspirates in two columns
C11_Witness ==
  /\ pc = "increment"
  /\ {Phase(ops[i]) : i \in 1 .. Len(ops)} = 0 .. 5
  /\ Cardinality(PlateOps("aspirate")) = 2

(***************************************************************************)
(* C12  In an execution of update_plate with no failure that starts with   *)
(* empty tips, the volume in the tip of a channel is never negative, is    *)
(* need[row] right after the aspirate from the trough, is 0 on every       *)
(* channel when the dispense loop ends, is excess[row] when the aspirate   *)
(* loop ends, and is 0 on every channel at return_tips.                    *)
(***************************************************************************)
NoFailure == failedStep = "none" /\ tolCycle = NoCycle

C12_TipVolume ==
  NoFailure =>
    /\ \A channel \in DOMAIN tipVol : tipVol[channel] >= 0
    /\ (pc = "dispense_loop" /\ column = 0) => tipVol = need
    /\ pc = "dispense_loop" => \A channel \in DOMAIN tipVol : tipVol[channel] <= need[channel]
    /\ (pc = "aspirate_loop" /\ PlateOps("aspirate") = {}) => tipVol = zeros
    /\ pc = "aspirate_loop" => \A channel \in DOMAIN tipVol : tipVol[channel] <= excess[channel]
    /\ pc = "dispense_excess" => tipVol = excess
    /\ pc \in {"return_tips", "increment"} => tipVol = zeros

\* the tips are empty again at return_tips after a channel has carried 2 * ALIVE_VOLUME
\* to the plate and a channel has carried ALIVE_VOLUME back
C12_Witness ==
  /\ pc = "return_tips"
  /\ NoFailure
  /\ tipVol = zeros
  /\ \E row \in 0 .. 7 : need[row] = 2 * ALIVE_VOLUME
  /\ \E row \in 0 .. 7 : excess[row] = ALIVE_VOLUME
  /\ TroughOps("aspirate") # {} /\ TroughOps("dispense") # {}

(***************************************************************************)
(* C13  In every cycle of a run, the cycles after a tolerated failure of   *)
(* the dispense into the trough included, each tip is empty when the       *)
(* aspirate from the trough begins, and holds exactly need[row] after it:  *)
(* no liquid is carried in a tip from one cycle into the next.             *)
(***************************************************************************)
C13_TipsEmptyAtPreAspirate ==
  /\ pc \in {"pick_up_tips", "plan", "plan_loop", "aspirate_trough"} => tipVol = zeros
  /\ (pc = "dispense_loop" /\ column = 0 /\ failedStep = "none") => tipVol = need

(***************************************************************************)
(* C14  For every diff the loop can produce on the 8 x 12 plate with       *)
(* ALIVE_VOLUME = 100, the volume in the tip of a channel never exceeds    *)
(* the capacity of the tips of the tip rack, at any moment of update_plate.*)
(***************************************************************************)
C14_WithinTipCapacity ==
  /\ \A channel \in DOMAIN tipVol : tipVol[channel] <= TipCapacity
  /\ need # Unbound => \A channel \in DOMAIN need : need[channel] <= TipCapacity
  /\ excess # Unbound => \A channel \in DOMAIN excess : excess[channel] <= TipCapacity

(***************************************************************************)
(* C15  When a command other than the dispense into the trough fails, the  *)
(* run is aborted: nothing is done afterwards.  No aspirate, dispense,     *)
(* plate move or read is issued, the failed command is not retried, the    *)
(* rest of the cycle is not executed and no later cycle starts.            *)
(***************************************************************************)
C15_FatalFailureAborts ==
  /\ [](failedStep \in FatalSteps => pc = "raised")
  /\ [][failedStep \notin FatalSteps]_vars

\* a plate dispense of cycle 0 has failed with a cycle still to come
C15_Witness ==
  /\ pc = "raised"
  /\ failedStep = "dispense_plate"
  /\ cycle + 1 < max_cycles
  /\ ops[Len(ops)].op = "dispense"
  /\ reads = 1

(***************************************************************************)
(* C16  For every max_cycles >= 0 and every sequence of readings, provided *)
(* each hardware command returns, the loop terminates; it performs at most *)
(* max_cycles plate reads and at most max_cycles executions of             *)
(* update_plate; the counter goes up by one exactly when an update_plate   *)
(* has completed and never otherwise; and the loop ends in the cycle where *)
(* a fixed point is read or when the counter equals max_cycles.            *)
(***************************************************************************)
\* an execution of update_plate has begun and the counter has not been advanced for it
UpdateUncounted ==
  \/ pc \in {"plan", "plan_loop", "aspirate_trough", "dispense_loop", "aspirate_loop",
             "dispense_excess", "return_tips", "increment"}
  \/ /\ pc = "raised"
     /\ failedStep \in {"pick_up_tips", "aspirate_trough", "dispense_plate",
                        "aspirate_plate", "return_tips"}
AfterLoop == pc \in {"lh_stop", "pr_stop", "returned"}

\* the steps one cycle can take at most
CycleSteps == 3 * NCols + 17
\* the steps left in the cycle, at most
StepsLeft ==
  CASE pc = "setup" -> CycleSteps + 1
    [] pc = "open_reader" -> CycleSteps
    [] pc = "while" -> 3 * NCols + 16
    [] pc = "move_in" -> 3 * NCols + 15
    [] pc = "pr_close" -> 3 * NCols + 14
    [] pc = "read_absorbance" -> 3 * NCols + 13
    [] pc = "pr_open" -> 3 * NCols + 12
    [] pc = "move_out" -> 3 * NCols + 11
    [] pc = "read_state" -> 3 * NCols + 10
    [] pc = "compute_next_state" -> 3 * NCols + 9
    [] pc = "terminal_test" -> 3 * NCols + 8
    [] pc = "pick_up_tips" -> 3 * NCols + 7
    [] pc = "plan" -> 3 * NCols + 6
    [] pc = "plan_loop" -> 2 * NCols + 5 + (NCols - column)
    [] pc = "aspirate_trough" -> 2 * NCols + 5
    [] pc = "dispense_loop" -> NCols + 4 + (NCols - column)
    [] pc = "aspirate_loop" -> 4 + (column + 1)
    [] pc = "dispense_excess" -> 4
    [] pc = "return_tips" -> 3
    [] pc = "increment" -> 2
    [] OTHER -> 0
\* a bound on the steps main can still take
Rank ==
  CASE pc = "lh_stop" -> 2
    [] pc = "pr_stop" -> 1
    [] pc \in {"returned", "raised"} -> 0
    [] OTHER -> (max_cycles - cycle) * CycleSteps + StepsLeft

\* Termination is stated as safety: every step of main lowers Rank, Rank is never
\* negative, and a step is possible in every state but the two final ones, so a run
\* in which each command returns or raises ends after at most Rank steps.
C16_LoopTerminates ==
  /\ [](/\ reads <= max_cycles
        /\ updates <= max_cycles
        /\ cycle <= max_cycles
        /\ updates = cycle + (IF UpdateUncounted THEN 1 ELSE 0)
        /\ AfterLoop => (cycle = max_cycles \/ FixedPointRead)
        /\ Rank >= 0
        /\ pc \notin {"returned", "raised"} => ENABLED Next)
  /\ [][Rank' < Rank]_vars
  /\ [][cycle' # cycle =>
          (pc = "increment" /\ cycle' = cycle + 1 /\ retCycle = cycle)]_vars
  /\ [][pc = "increment" => cycle' = cycle + 1]_vars

\* main has returned after two full cycles: two reads, two executions of update_plate
C16_Witness ==
  /\ pc = "returned"
  /\ max_cycles = 2
  /\ cycle = 2
  /\ updates = 2
  /\ reads = 2

(***************************************************************************)
(* C17  Every diff that main passes to update_plate is next_state -        *)
(* current_state cell by cell: each entry is -1, 0 or +1, +1 exactly where *)
(* the cell was dead and becomes alive, -1 exactly where it was alive and  *)
(* becomes dead, 0 where it does not change.  The loop stops as terminal   *)
(* iff all entries are 0, so update_plate never gets an all-zero diff.     *)
(***************************************************************************)
C17_DiffIsTransition ==
  /\ diff # Unbound =>
       /\ current_state # Unbound /\ next_state # Unbound
       /\ \A row \in RowsOf(current_state) : \A col \in ColsOf(current_state) :
            /\ diff[row][col] \in {-1, 0, 1}
            /\ diff[row][col] = 1 <=>
                 (~current_state[row][col] /\ next_state[row][col] = 1)
            /\ diff[row][col] = -1 <=>
                 (current_state[row][col] /\ next_state[row][col] = 0)
            /\ diff[row][col] = 0 <=>
                 (current_state[row][col] <=> next_state[row][col] = 1)
       /\ CountCells(diff, 1) + CountCells(diff, -1) > 0
  /\ pc \in {"pick_up_tips", "plan", "plan_loop", "aspirate_trough", "dispense_loop",
             "aspirate_loop", "dispense_excess", "return_tips"} => diff # Unbound
  /\ pc = "terminal_test" =>
       (is_terminal(next_state, current_state) <=>
          CountCells(subtract(next_state, current_state), 0) = Shape0(current_state) * Shape1(current_state))

\* update_plate is entered with a diff that has a birth and a death
C17_Witness ==
  /\ pc = "pick_up_tips"
  /\ CountCells(diff, 1) > 0
  /\ CountCells(diff, -1) > 0
  /\ cycle = 1

(***************************************************************************)
(* C18  In a run with no failure the reader and the plate are where the    *)
(* sequence move in, close, read, open, move out needs them: the reader is *)
(* open at every move of the plate into or out of it, closed with the      *)
(* plate inside at every read, the plate is on its carrier and the reader  *)
(* open throughout update_plate, and each cycle reads the plate once.      *)
(***************************************************************************)
InUpdatePlate ==
  pc \in {"pick_up_tips", "plan", "plan_loop", "aspirate_trough", "dispense_loop",
          "aspirate_loop", "dispense_excess", "return_tips"}
\* the cycle under way has read the plate
HasRead ==
  \/ pc \in {"pr_open", "move_out", "read_state", "compute_next_state", "terminal_test",
             "increment"}
  \/ InUpdatePlate
  \/ AfterLoop /\ readCycle = cycle

C18_ReaderAndPlate ==
  failedStep = "none" =>
    /\ pc = "move_in" => (readerOpen /\ platePos = "carrier")
    /\ pc = "pr_close" => (readerOpen /\ platePos = "reader")
    /\ pc = "read_absorbance" => (~readerOpen /\ platePos = "reader")
    /\ pc = "pr_open" => (~readerOpen /\ platePos = "reader")
    /\ pc = "move_out" => (readerOpen /\ platePos = "reader")
    /\ InUpdatePlate => (readerOpen /\ platePos = "carrier")
    /\ pc \notin {"setup", "open_reader"} => reads = cycle + (IF HasRead THEN 1 ELSE 0)

\* the second read of a run: the reader is closed on the plate
C18_Witness ==
  /\ pc = "read_absorbance"
  /\ failedStep = "none"
  /\ cycle = 1
  /\ reads = 1
  /\ ~readerOpen
  /\ platePos = "reader"

(***************************************************************************)
(* C19  As claimed: on ideal hardware (a well reads above OD_THRESHOLD iff *)
(* it holds liquid, every transfer moves exactly its volume, only          *)
(* update_plate changes the plate) the plate follows the Game of Life: the *)
(* state read in cycle k+1 is compute_next_state of the state read in      *)
(* cycle k.                                                                *)
(***************************************************************************)
\* the state read in this cycle is what the cycle before computed
FollowsLife ==
  (expected # Unbound /\ current_state # Unbound) =>
    \A row \in RowsOf(current_state) : \A col \in ColsOf(current_state) :
      current_state[row][col] <=> expected[row][col] = 1

C19_PlateFollowsLife == hardware = "ideal" => FollowsLife

(***************************************************************************)
(* C19, amended: the same, for a plate on which every well that holds      *)
(* liquid when main starts holds exactly ALIVE_VOLUME.                     *)
(***************************************************************************)
C19_ExactPlateFollowsLife ==
  (hardware = "ideal" /\ fill = "exact") =>
    /\ FollowsLife
    \* between two executions of update_plate a well is empty or holds ALIVE_VOLUME
    /\ ~InUpdatePlate =>
         \A row \in DOMAIN wells : \A col \in DOMAIN wells[row] :
           wells[row][col] \in {0, ALIVE_VOLUME}
    /\ \A row \in DOMAIN wells : \A col \in DOMAIN wells[row] : wells[row][col] >= 0

\* the second read of a run on an exact plate, after an update_plate: the plate
\* reads as computed, with living and dead cells
C19_Witness ==
  /\ hardware = "ideal"
  /\ fill = "exact"
  /\ pc = "compute_next_state"
  /\ cycle = 1
  /\ updates = 1
  /\ expected # Unbound
  /\ CountCells(expected, 1) > 0
  /\ CountCells(expected, 0) > 0
  /\ \A row \in RowsOf(current_state) : \A col \in ColsOf(current_state) :
       current_state[row][col] <=> expected[row][col] = 1

(***************************************************************************)
(* C20  In every plate command of update_plate for column c the lists of   *)
(* channels, well ids and volumes have the same length, the channels are   *)
(* distinct and strictly rising, channel i addresses the well in row i     *)
(* (well id = c * 8 + channel, which decodes to column c and row i on the  *)
(* 8-row plate), every volume is ALIVE_VOLUME and all wells lie in column  *)
(* c; in every trough command each channel appears once, paired with its   *)
(* own need[channel] (aspirate) or excess[channel] (dispense).             *)
(***************************************************************************)
StrictlyRising(list) == \A i \in 1 .. Len(list) : \A j \in 1 .. Len(list) : i < j => list[i] < list[j]

C20_BatchShape ==
  /\ \A i \in PlateOps("dispense") \cup PlateOps("aspirate") :
       LET o == ops[i]
           c == plate_well(o.well_ids[1]).col
       IN  /\ Len(o.use_channels) = Len(o.well_ids)
           /\ Len(o.vols) = Len(o.well_ids)
           /\ StrictlyRising(o.use_channels)
           /\ \A j \in 1 .. Len(o.well_ids) :
                /\ o.use_channels[j] \in RowsOf(diff)
                /\ o.well_ids[j] = c * 8 + o.use_channels[j]
                /\ plate_well(o.well_ids[j]) = [row |-> o.use_channels[j], col |-> c]
                /\ o.vols[j] = ALIVE_VOLUME
           /\ c \in ColsOf(diff)
  /\ \A i \in TroughOps("aspirate") \cup TroughOps("dispense") :
       LET o == ops[i]
           v == IF o.op = "aspirate" THEN need ELSE excess
       IN  /\ Len(o.vols) = Len(o.use_channels)
           /\ o.well_ids = <<>>
           /\ StrictlyRising(o.use_channels)
           /\ v # Unbound =>
                /\ \A j \in 1 .. Len(o.use_channels) :
                     /\ o.use_channels[j] \in 0 .. 7
                     /\ o.vols[j] = v[o.use_channels[j]]
                     /\ o.vols[j] > 0
                /\ \A channel \in 0 .. 7 :
                     v[channel] > 0 => \E j \in 1 .. Len(o.use_channels) : o.use_channels[j] = channel

\* a plate command on two channels at once, and a trough command that pairs two
\* channels with different volumes
C20_Witness ==
  /\ pc = "return_tips"
  /\ \E i \in PlateOps("dispense") \cup PlateOps("aspirate") : Len(ops[i].use_channels) = 2
  /\ \E i \in TroughOps("aspirate") \cup TroughOps("dispense") :
       /\ Len(ops[i].use_channels) = 2
       /\ ops[i].vols[1] # ops[i].vols[2]

====
